---------------------------- MODULE Spec2Model ----------------------------
(***************************************************************************)
(* The scaffold scripts of module-app: src/plugin.py builds the "OAuth     *)
(* plugin" tree, src/ss.py the "default theme" tree.  Each script is a     *)
(* flat sequence of os.makedirs(..., exist_ok=True) and create_file calls  *)
(* followed by one print.  The model runs one script, step by step, on a   *)
(* filesystem of directories and regular files.                            *)
(*                                                                         *)
(* A path is the sequence of its components, relative to the working       *)
(* directory (the empty sequence).  The environment (permissions, free     *)
(* space) is fixed for the lifetime of a behaviour: a permission or I/O    *)
(* fault can strike a path only if no earlier operation on that path       *)
(* succeeded.                                                              *)
(***************************************************************************)
EXTENDS Naturals, Sequences, FiniteSets, TLC

\* Number of paths that exist before the first run and deviate from an empty
\* working directory.
MaxPre == 1

-----------------------------------------------------------------------------
(* Paths *)

\* os.path.join(dir, name)
Join(dir, name) == Append(dir, name)

\* os.path.split(p)[0], os.path.dirname(p)
Dirname(p) == SubSeq(p, 1, Len(p) - 1)

IsPrefix(a, b) == Len(a) <= Len(b) /\ SubSeq(b, 1, Len(a)) = a

IsProperPrefix(a, b) == Len(a) < Len(b) /\ IsPrefix(a, b)

\* All non-empty prefixes of p, p included.
Prefixes(p) == { SubSeq(p, 1, n) : n \in 1..Len(p) }

-----------------------------------------------------------------------------
(* The two scripts, as their sequences of calls *)

MkStep(path) == [op |-> "makedirs", path |-> path, content |-> ""]

FileStep(path, content) == [op |-> "create_file", path |-> path, content |-> content]

create_oauth_plugin_structure ==
  LET base_dir       == <<"oauth-plugin">>
      routes_dir     == Join(base_dir, "routes")
      admin_dir      == Join(base_dir, "admin")
      widgets_dir    == Join(base_dir, "widgets")
      components_dir == Join(base_dir, "components")
      lib_dir        == Join(base_dir, "lib")
      assets_dir     == Join(base_dir, "assets")
  IN << MkStep(base_dir),
        FileStep(Join(base_dir, "plugin.json"), "// Plugin manifest"),
        FileStep(Join(base_dir, "index.js"), "// Main plugin entry point"),
        FileStep(Join(base_dir, "README.md"), "# OAuth Plugin\n\nPlugin documentation"),
        MkStep(routes_dir),
        FileStep(Join(routes_dir, "callback.js"), "// OAuth callback handler"),
        FileStep(Join(routes_dir, "providers.js"), "// Get available providers"),
        FileStep(Join(routes_dir, "config.js"), "// Plugin configuration API"),
        MkStep(admin_dir),
        FileStep(Join(admin_dir, "oauth-settings.jsx"), "// Admin configuration page"),
        MkStep(widgets_dir),
        FileStep(Join(widgets_dir, "oauth-stats.jsx"), "// Dashboard statistics widget"),
        MkStep(components_dir),
        FileStep(Join(components_dir, "OAuthButtons.jsx"), "// OAuth login buttons"),
        MkStep(lib_dir),
        FileStep(Join(lib_dir, "oauth-providers.js"), "// OAuth provider configurations"),
        FileStep(Join(lib_dir, "oauth-utils.js"), "// OAuth utility functions"),
        FileStep(Join(lib_dir, "database.js"), "// Database models and operations"),
        MkStep(assets_dir),
        FileStep(Join(assets_dir, "oauth.css"), "/* OAuth button styles */"),
        FileStep(Join(assets_dir, "oauth.js"), "// Client-side OAuth handling") >>

create_default_theme_structure ==
  LET base_dir       == Join(Join(<<"themes">>, "installed"), "default")
      layouts_dir    == Join(base_dir, "layouts")
      components_dir == Join(base_dir, "components")
      pages_dir      == Join(base_dir, "pages")
      assets_dir     == Join(base_dir, "assets")
      images_dir     == Join(assets_dir, "images")
      fonts_dir      == Join(assets_dir, "fonts")
      icons_dir      == Join(assets_dir, "icons")
  IN << MkStep(base_dir),
        FileStep(Join(base_dir, "theme.json"), "// Theme manifest"),
        FileStep(Join(base_dir, "index.js"), "// Main entry point"),
        FileStep(Join(base_dir, "styles.css"), "/* Theme styles */"),
        FileStep(Join(base_dir, "preview.jpg"), "/* Theme preview image */"),
        MkStep(layouts_dir),
        FileStep(Join(layouts_dir, "default.tsx"), "// Default layout"),
        FileStep(Join(layouts_dir, "admin.tsx"), "// Admin layout"),
        FileStep(Join(layouts_dir, "auth.tsx"), "// Authentication layout"),
        MkStep(components_dir),
        FileStep(Join(components_dir, "header.tsx"), "// Site header"),
        FileStep(Join(components_dir, "footer.tsx"), "// Site footer"),
        FileStep(Join(components_dir, "navigation.tsx"), "// Main navigation"),
        FileStep(Join(components_dir, "hero-section.tsx"), "// Homepage hero"),
        FileStep(Join(components_dir, "features-section.tsx"), "// Features section"),
        FileStep(Join(components_dir, "stats-section.tsx"), "// Statistics section"),
        FileStep(Join(components_dir, "cta-section.tsx"), "// Call-to-action section"),
        FileStep(Join(components_dir, "testimonials-section.tsx"), "// Testimonials section"),
        MkStep(pages_dir),
        FileStep(Join(pages_dir, "homepage.tsx"), "// Homepage component"),
        FileStep(Join(pages_dir, "about.tsx"), "// About page"),
        FileStep(Join(pages_dir, "contact.tsx"), "// Contact page"),
        MkStep(assets_dir),
        MkStep(images_dir),
        FileStep(Join(images_dir, "logo.svg"), "<!-- Default logo -->"),
        FileStep(Join(images_dir, "hero-bg.jpg"), "/* Hero background */"),
        FileStep(Join(images_dir, "feature-1.svg"), "<!-- Feature icon 1 -->"),
        FileStep(Join(images_dir, "feature-2.svg"), "<!-- Feature icon 2 -->"),
        FileStep(Join(images_dir, "feature-3.svg"), "<!-- Feature icon 3 -->"),
        MkStep(fonts_dir),
        FileStep(Join(fonts_dir, "inter-var.woff2"), "/* Inter font */"),
        FileStep(Join(fonts_dir, "poppins-var.woff2"), "/* Poppins font */"),
        MkStep(icons_dir),
        FileStep(Join(icons_dir, "check.svg"), "<!-- Check icon -->"),
        FileStep(Join(icons_dir, "arrow-right.svg"), "<!-- Arrow icon -->"),
        FileStep(Join(icons_dir, "star.svg"), "<!-- Star icon -->") >>

Scripts == {"plugin", "theme"}

\* The script with its last makedirs call left out.
StepsSkipDir(s) ==
  LET all == IF s = "plugin" THEN create_oauth_plugin_structure
                             ELSE create_default_theme_structure
      k   == CHOOSE i \in 1..Len(all) :
               /\ all[i].op = "makedirs"
               /\ \A j \in (i + 1)..Len(all) : all[j].op # "makedirs"
  IN  SubSeq(all, 1, k - 1) \o SubSeq(all, k + 1, Len(all))

Steps(s) == IF s = "plugin" THEN create_oauth_plugin_structure
                            ELSE create_default_theme_structure

\* base_dir of each script
BaseDir(s) == Steps(s)[1].path

StepIdx(s) == 1..Len(Steps(s))

FileIdx(s) == { i \in StepIdx(s) : Steps(s)[i].op = "create_file" }

DirIdx(s) == { i \in StepIdx(s) : Steps(s)[i].op = "makedirs" }

\* The file paths the script writes, and every directory portion of them.
FilePathsOf ==
  [s \in Scripts |-> { Steps(s)[i].path : i \in FileIdx(s) }]

FilePaths(s) == FilePathsOf[s]

DirPathsOf ==
  [s \in Scripts |-> UNION { Prefixes(Dirname(f)) : f \in FilePaths(s) }]

DirPaths(s) == DirPathsOf[s]

-----------------------------------------------------------------------------
(* The filesystem *)

Absent == [kind |-> "absent", content |-> ""]

DirNode == [kind |-> "dir", content |-> ""]

FileNode(c) == [kind |-> "file", content |-> c]

\* Content of a file that exists before the run, longer than any content
\* the scripts write.
Stale == "stale content left by an earlier, different version of the scaffold"

\* Paths of the model's filesystem: the script's paths, a file of the base
\* directory the script does not name, an entry below one of its file paths
\* and two paths outside the base directory.
Universe(s) ==
  FilePaths(s) \cup DirPaths(s) \cup
  { Join(BaseDir(s), "notes.txt"),
    Join(Join(BaseDir(s), "index.js"), "keep.txt"),
    <<"other.txt">>,
    Join(Dirname(BaseDir(s)), "sibling") }

\* The working directory is a directory.
Kind(f, p) == IF p = << >> THEN "dir" ELSE f[p].kind

\* os.path.exists, os.path.isdir
Exists(f, p) == Kind(f, p) # "absent"

IsDir(f, p) == Kind(f, p) = "dir"


-----------------------------------------------------------------------------
(* The operating-system calls the scripts make.  Each returns the error it
   raises ("" for none), the path it failed on and the filesystem it leaves.
   `denied` is the set of paths on which the environment refuses creation or
   opening for writing, `full` the set of files whose write the device
   refuses. *)

Ok(f) == [err |-> "", at |-> << >>, fs |-> f]

Err(e, p, f) == [err |-> e, at |-> p, fs |-> f]

\* A mkdir that clears a file out of its way.
MkdirClobber(f, p, denied) ==
  CASE Kind(f, Dirname(p)) = "absent" -> Err("ENOENT", p, f)
    [] Kind(f, Dirname(p)) = "file"   -> Err("ENOTDIR", p, f)
    [] IsDir(f, p)                    -> Err("EEXIST", p, f)
    [] p \in denied                   -> Err("EACCES", p, f)
    [] OTHER                          -> Ok([f EXCEPT ![p] = DirNode])

\* os.mkdir(p)
Mkdir(f, p, denied) ==
  CASE Kind(f, Dirname(p)) = "absent" -> Err("ENOENT", p, f)
    [] Kind(f, Dirname(p)) = "file"   -> Err("ENOTDIR", p, f)
    [] Exists(f, p)                   -> Err("EEXIST", p, f)
    [] p \in denied                   -> Err("EACCES", p, f)
    [] OTHER                          -> Ok([f EXCEPT ![p] = DirNode])

\* exist_ok that drops the error without looking at what is there.
MkdirFailedSwallow(r, f, name, exist_ok) ==
  IF exist_ok THEN Ok(f) ELSE r

\* What os.makedirs does when its final mkdir raised OSError: with exist_ok
\* the error is dropped if the path is a directory, and raised otherwise.
MkdirFailed(r, f, name, exist_ok) ==
  IF exist_ok /\ IsDir(f, name) THEN Ok(f) ELSE r

\* os.mkdir in the place of os.makedirs: the ancestors are not created.
MakedirsLeafOnly(f, name, exist_ok, denied) ==
  LET leaf == Mkdir(f, name, denied)
  IN  IF leaf.err = "" THEN leaf ELSE MkdirFailed(leaf, f, name, exist_ok)

\* os.makedirs(name, exist_ok): the missing ancestors first (a
\* FileExistsError of that recursion is ignored, any other error is raised),
\* then the leaf.
RECURSIVE Makedirs(_, _, _, _)
Makedirs(f, name, exist_ok, denied) ==
  LET head == Dirname(name)
      up   == IF Len(name) > 1 /\ ~Exists(f, head)
                THEN Makedirs(f, head, exist_ok, denied)
                ELSE Ok(f)
      leaf == Mkdir(up.fs, name, denied)
  IN  IF up.err \notin {"", "EEXIST"} THEN up
      ELSE IF leaf.err = "" THEN leaf
      ELSE MkdirFailed(leaf, up.fs, name, exist_ok)

\* Mode 'a' of open(): the old content stays.
KeepOld(old) == old

\* Mode 'w' of open(): an existing file is cut to length zero.
Truncate(old) == ""

\* An open that puts a file in the place of whatever is there.
OpenWReplace(f, p, denied) ==
  CASE Kind(f, Dirname(p)) = "absent" -> Err("ENOENT", p, f)
    [] Kind(f, Dirname(p)) = "file"   -> Err("ENOTDIR", p, f)
    [] p \in denied                   -> Err("EACCES", p, f)
    [] OTHER                          -> Ok([f EXCEPT ![p] = FileNode("")])

\* open(path, 'w')
OpenW(f, p, denied) ==
  CASE Kind(f, Dirname(p)) = "absent" -> Err("ENOENT", p, f)
    [] Kind(f, Dirname(p)) = "file"   -> Err("ENOTDIR", p, f)
    [] IsDir(f, p)                    -> Err("EISDIR", p, f)
    [] p \in denied                   -> Err("EACCES", p, f)
    [] OTHER                          -> Ok([f EXCEPT ![p] = FileNode(Truncate(f[p].content))])

\* A create_file that opens the file and writes nothing.
WriteNothing(f, p, content, full) ==
  IF p \in full THEN Err("ENOSPC", p, f) ELSE Ok(f)

\* f.write(content) and the flush of the close that follows: the content
\* goes after what the open left in the file.  A refused write leaves the
\* file as the open left it.
WriteTo(f, p, content, full) ==
  IF p \in full THEN Err("ENOSPC", p, f)
  ELSE Ok([f EXCEPT ![p] = FileNode(f[p].content \o content)])

\* A handle closed by hand after the write, and so not when the write raises.
LeakOnRaise(h, raised) == IF raised THEN h ELSE h - 1

\* The with statement of create_file leaves its block, normally or by an
\* exception: the handle is closed.
WithExit(h, raised) == h - 1

\* Every call wrapped in try/except-pass: the run goes on after an error.
Swallow(err, k) == [status |-> "running", pc |-> k + 1]

\* An exception is caught nowhere: the step that raises is the last one, a
\* step that returns is followed by the next.
Propagate(err, k) ==
  IF err = "" THEN [status |-> "running", pc |-> k + 1]
              ELSE [status |-> "error", pc |-> k]

\* The print placed before the last call of the script.
ReturnedEarly(s, k) == k >= Len(Steps(s))

\* The print of the entry point follows the return of the script's function.
Returned(s, k) == k > Len(Steps(s))

-----------------------------------------------------------------------------
(* State *)

VARIABLES
  script,    \* which script the process runs
  run,       \* "first" or "second" run of it on this filesystem
  fs,        \* the filesystem
  fs0,       \* the filesystem when the current run started
  pc,        \* index of the call being executed; Len+1 after the last
  sub,       \* "call", or "opened" inside create_file's with block
  handles,   \* number of open file handles
  status,    \* "running", "ok" (exit after the print) or "error" (traceback)
  printed,   \* number of success messages printed by the current process
  fault,     \* the error that ended the run: [kind, path]
  failedAt,  \* index of the call that raised, 0 if none
  made,      \* directories whose makedirs call returned in the current run
  proven     \* files whose open and write have succeeded

vars == <<script, run, fs, fs0, pc, sub, handles, status, printed, fault,
          failedAt, made, proven>>

NoFault == [kind |-> "", path |-> << >>]

\* Sets of at most k paths of U.
RECURSIVE UpTo(_, _)
UpTo(U, k) ==
  IF k = 0 THEN { {} }
  ELSE LET prev == UpTo(U, k - 1)
       IN  prev \cup { S \cup {x} : S \in prev, x \in U }

\* The filesystem in which the paths of S exist, those of F as stale files
\* and the others as directories, with the directories leading to them.
Populated(s, S, F) ==
  [p \in Universe(s) |->
     IF p \in F THEN FileNode(Stale)
     ELSE IF p \in S \/ \E q \in S : IsProperPrefix(p, q) THEN DirNode
     ELSE Absent]

\* No file has an entry below it.
WellFormed(f) ==
  \A p \in DOMAIN f : Exists(f, p) => IsDir(f, Dirname(p))

Init ==
  /\ script \in Scripts
  /\ \E S \in UpTo(Universe(script), MaxPre) : \E F \in SUBSET S :
       /\ \A a \in F, b \in S : ~IsProperPrefix(a, b)
       /\ fs = Populated(script, S, F)
  /\ fs0 = fs
  /\ run = "first"
  /\ pc = 1
  /\ sub = "call"
  /\ handles = 0
  /\ status = "running"
  /\ printed = 0
  /\ fault = NoFault
  /\ failedAt = 0
  /\ made = {}
  /\ proven = {}

Cur == Steps(script)[pc]

AtStep(op) == status = "running" /\ pc \in StepIdx(script) /\ Cur.op = op

\* The paths the environment may refuse when a makedirs call creates them.
MayDeny(p) == { {} } \cup { {q} : q \in { a \in Prefixes(p) : ~Exists(fs, a) } }

\* os.makedirs(dir, exist_ok=True)
MakedirsStep(faults) ==
  /\ AtStep("makedirs")
  /\ \E denied \in IF faults THEN MayDeny(Cur.path) ELSE { {} } :
       LET r    == Makedirs(fs, Cur.path, TRUE, denied)
           next == Propagate(r.err, pc)
       IN  /\ fs' = r.fs
           /\ pc' = next.pc
           /\ status' = next.status
           /\ fault' = IF r.err = "" THEN fault ELSE [kind |-> r.err, path |-> r.at]
           /\ failedAt' = IF r.err = "" THEN failedAt ELSE pc
           /\ made' = IF r.err = "" THEN made \cup {Cur.path} ELSE made
  /\ UNCHANGED <<script, run, fs0, sub, handles, printed, proven>>

\* create_file, line 5: with open(path, 'w') as f
OpenStep(faults) ==
  /\ AtStep("create_file")
  /\ sub = "call"
  /\ \E denied \in IF faults /\ Cur.path \notin proven THEN { {}, {Cur.path} } ELSE { {} } :
       LET r    == OpenW(fs, Cur.path, denied)
           next == Propagate(r.err, pc)
       IN  /\ fs' = r.fs
           /\ status' = next.status
           /\ pc' = IF r.err = "" THEN pc ELSE next.pc
           /\ sub' = IF r.err = "" THEN "opened" ELSE sub
           /\ handles' = IF r.err = "" THEN handles + 1 ELSE handles
           /\ fault' = IF r.err = "" THEN fault ELSE [kind |-> r.err, path |-> r.at]
           /\ failedAt' = IF r.err = "" THEN failedAt ELSE pc
  /\ UNCHANGED <<script, run, fs0, printed, made, proven>>

\* create_file, line 6 and the end of the with block: f.write(content), close
WriteStep(faults) ==
  /\ AtStep("create_file")
  /\ sub = "opened"
  /\ \E full \in IF faults /\ Cur.path \notin proven THEN { {}, {Cur.path} } ELSE { {} } :
       LET r    == WriteTo(fs, Cur.path, Cur.content, full)
           next == Propagate(r.err, pc)
       IN  /\ fs' = r.fs
           /\ pc' = next.pc
           /\ status' = next.status
           /\ handles' = WithExit(handles, r.err # "")
           /\ fault' = IF r.err = "" THEN fault ELSE [kind |-> r.err, path |-> r.at]
           /\ failedAt' = IF r.err = "" THEN failedAt ELSE pc
           /\ proven' = IF r.err = "" THEN proven \cup {Cur.path} ELSE proven
  /\ sub' = "call"
  /\ UNCHANGED <<script, run, fs0, printed, made>>

\* __main__: the script's function has returned; print the message and exit.
Finish ==
  /\ status = "running"
  /\ sub = "call"
  /\ Returned(script, pc)
  /\ printed' = printed + 1
  /\ status' = "ok"
  /\ UNCHANGED <<script, run, fs, fs0, pc, sub, handles, fault, failedAt, made, proven>>

\* The script is started again on the filesystem a successful run left.
Rerun ==
  /\ status = "ok"
  /\ run = "first"
  /\ run' = "second"
  /\ fs0' = fs
  /\ pc' = 1
  /\ sub' = "call"
  /\ status' = "running"
  /\ printed' = 0
  /\ made' = {}
  /\ UNCHANGED <<script, fs, handles, fault, failedAt, proven>>

Next ==
  \/ MakedirsStep(TRUE)
  \/ OpenStep(TRUE)
  \/ WriteStep(TRUE)
  \/ Finish
  \/ Rerun

Spec == Init /\ [][Next]_vars

\* The same program where the environment refuses nothing.
NextNoFault ==
  \/ MakedirsStep(FALSE)
  \/ OpenStep(FALSE)
  \/ WriteStep(FALSE)
  \/ Finish
  \/ Rerun

TypeOK ==
  /\ script \in Scripts
  /\ run \in {"first", "second"}
  /\ WellFormed(fs)
  /\ pc \in 1..(Len(Steps(script)) + 1)
  /\ sub \in {"call", "opened"}
  /\ handles \in 0..1
  /\ status \in {"running", "ok", "error"}
  /\ printed \in 0..1


\* A run that starts in an empty working directory, in an environment that
\* refuses nothing; the process runs to its end.
InitClean == Init /\ \A p \in DOMAIN fs : ~Exists(fs, p)

CleanSpec == InitClean /\ [][NextNoFault]_vars /\ WF_vars(NextNoFault)

-----------------------------------------------------------------------------
(* The scaffold procedure of the specification, section 4.1 *)

\* The entries of a script: relative path and content of each create_file
\* call, in the order of the calls.
ManifestOf ==
  [s \in Scripts |->
     LET calls == SelectSeq(Steps(s), LAMBDA e : e.op = "create_file")
         base  == Len(BaseDir(s))
     IN  [i \in 1..Len(calls) |->
            [relativePath |-> SubSeq(calls[i].path, base + 1, Len(calls[i].path)),
             content      |-> calls[i].content]]]

Manifest(s) == ManifestOf[s]

\* ensureDirectory(path)
RECURSIVE EnsureDirectory(_, _, _)
EnsureDirectory(f, p, denied) ==
  IF p = << >> THEN Ok(f)
  ELSE LET up == EnsureDirectory(f, Dirname(p), denied)
       IN  CASE up.err # ""          -> up
             [] IsDir(up.fs, p)      -> Ok(up.fs)
             [] Exists(up.fs, p)     -> Err("FilesystemError", p, up.fs)
             [] p \in denied         -> Err("FilesystemError", p, up.fs)
             [] OTHER                -> Ok([up.fs EXCEPT ![p] = DirNode])

\* writeFile(path, content)
WriteFile(f, p, content, denied, full) ==
  CASE ~IsDir(f, Dirname(p)) \/ IsDir(f, p) \/ p \in denied
                     -> Err("FilesystemError", p, f)
    [] p \in full    -> Err("FilesystemError", p, [f EXCEPT ![p] = FileNode("")])
    [] OTHER         -> Ok([f EXCEPT ![p] = FileNode(content)])

\* buildScaffold(baseDir, manifest), from entry i on
RECURSIVE BuildFrom(_, _, _, _, _, _)
BuildFrom(f, baseDir, manifest, i, denied, full) ==
  IF i > Len(manifest) THEN Ok(f)
  ELSE LET path == baseDir \o manifest[i].relativePath
           d    == EnsureDirectory(f, Dirname(path), denied)
           w    == WriteFile(d.fs, path, manifest[i].content, denied, full)
       IN  IF d.err # "" THEN d
           ELSE IF w.err # "" THEN w
           ELSE BuildFrom(w.fs, baseDir, manifest, i + 1, denied, full)

buildScaffold(f, baseDir, manifest, denied, full) ==
  BuildFrom(f, baseDir, manifest, 1, denied, full)


-----------------------------------------------------------------------------
(* Properties *)

Entry(i) == Steps(script)[i]

\* Every file of the manifest holds exactly its content in f.
ManifestWritten(s, f) ==
  \A i \in FileIdx(s) : f[Steps(s)[i].path] = FileNode(Steps(s)[i].content)

\* Every directory portion of the manifest's paths is a directory in f.
DirsPresent(s, f) == \A d \in DirPaths(s) : IsDir(f, d)

\* The directory components of manifest paths that a file occupies in f.
Blocked(s, f) == { d \in DirPaths(s) : Kind(f, d) = "file" }

\* The makedirs call that creates component d: the first whose path goes
\* through d.
StepOfTable ==
  [s \in Scripts |->
     [d \in DirPaths(s) |->
        CHOOSE i \in DirIdx(s) :
          /\ IsPrefix(d, Steps(s)[i].path)
          /\ \A j \in DirIdx(s) : IsPrefix(d, Steps(s)[j].path) => i <= j]]

StepOf(s, d) == StepOfTable[s][d]

\* C1: when a run ends in success, every manifest path is a regular file
\* holding exactly its literal content, and every directory portion of the
\* manifest's paths is a directory, whatever the filesystem was before.
C1_SuccessBuildsManifest ==
  status = "ok" => ManifestWritten(script, fs) /\ DirsPresent(script, fs)

\* A successful first run over a stale file at a manifest path.
C1_Witness ==
  /\ status = "ok"
  /\ run = "first"
  /\ \E p \in FilePaths(script) : fs0[p] = FileNode(Stale)

\* C2 as stated: with a directory component occupied by a file, the run
\* ends in error at the makedirs call of that component.
C2_FailsAtThatStep ==
  status # "running" =>
    \A d \in Blocked(script, fs0) :
      status = "error" /\ failedAt = StepOf(script, d)

\* C2, amended: with a directory component occupied by a file the run never
\* succeeds and never gets past the makedirs call of that component: it
\* ends in error no later than that call, and at that call with the error
\* of the occupied path unless an earlier call raised.
C2_BlockedNeverPassed ==
  \A d \in Blocked(script, fs0) :
    /\ status # "ok"
    /\ printed = 0
    /\ pc <= StepOf(script, d)
    /\ (status = "running" /\ pc = StepOf(script, d) => failedAt = 0)
    /\ (status = "error" =>
          /\ failedAt # 0
          /\ failedAt <= StepOf(script, d)
          /\ (failedAt = StepOf(script, d) =>
                /\ fault.kind \in {"EEXIST", "ENOTDIR"}
                /\ IsPrefix(d, fault.path)))
    /\ \A i \in FileIdx(script) :
         IsPrefix(d, Entry(i).path) => fs[Entry(i).path] = fs0[Entry(i).path]

\* A run that wrote the root files and then failed at the makedirs call of
\* an occupied subdirectory.
C2_Witness ==
  \E d \in Blocked(script, fs0) :
    /\ status = "error"
    /\ failedAt = StepOf(script, d)
    /\ failedAt > 1
    /\ \A i \in FileIdx(script) : i < failedAt => fs[Entry(i).path] = FileNode(Entry(i).content)

\* C3: whenever create_file is about to open its target, the parent of the
\* target is a directory and a makedirs call for it has returned earlier in
\* the same run; no create_file fails for a missing parent.
C3_ParentMadeBeforeWrite ==
  /\ (AtStep("create_file") /\ sub = "call" =>
        /\ IsDir(fs, Dirname(Cur.path))
        /\ Dirname(Cur.path) \in made)
  /\ (failedAt \in FileIdx(script) => fault.kind \notin {"ENOENT", "ENOTDIR"})

\* A write about to happen into a directory this run created.
C3_Witness ==
  /\ AtStep("create_file")
  /\ sub = "call"
  /\ Len(Cur.path) > Len(BaseDir(script)) + 1
  /\ ~Exists(fs0, Dirname(Cur.path))

\* C4: a second run after a successful first run raises nothing, succeeds
\* and leaves the filesystem as the first run left it; and a file that was
\* there before a run holds exactly the manifest content once its
\* create_file call has returned.
C4_RerunIdempotent ==
  /\ (run = "second" => status # "error" /\ failedAt = 0)
  /\ (run = "second" /\ status = "ok" => fs = fs0)
  /\ \A i \in FileIdx(script) :
       i < pc /\ fs0[Entry(i).path].kind = "file" =>
         fs[Entry(i).path] = FileNode(Entry(i).content)

\* The second run has ended in success.
C4_Witness ==
  /\ run = "second"
  /\ status = "ok"
  /\ printed = 1
  /\ ManifestWritten(script, fs0)

\* C5: a call that raises is the last call of the run: the run is in the
\* error state at that call, the files written before it hold their
\* manifest content, and no path of a later call has been touched.
C5_AbortAtFailure ==
  failedAt # 0 =>
    /\ status = "error"
    /\ pc = failedAt
    /\ \A i \in FileIdx(script) :
         i < failedAt => fs[Entry(i).path] = FileNode(Entry(i).content)
    /\ \A i \in StepIdx(script) :
         i > failedAt => fs[Entry(i).path] = fs0[Entry(i).path]

\* A create_file that failed in the middle of the script, on a directory
\* in the place of its target.
C5_Witness ==
  /\ status = "error"
  /\ failedAt \in FileIdx(script)
  /\ failedAt > 2
  /\ failedAt < Len(Steps(script))
  /\ fault.kind = "EISDIR"

\* C6: the message is printed at most once, only after every call of the
\* script has returned, and never in a run in which a call raised, which
\* ends in the error state.
C6_PrintOnlyAfterSuccess ==
  /\ printed <= 1
  /\ (printed = 1 =>
        /\ status = "ok"
        /\ pc = Len(Steps(script)) + 1
        /\ failedAt = 0
        /\ \A d \in DirIdx(script) : Entry(d).path \in made
        /\ ManifestWritten(script, fs))
  /\ (status = "ok" => printed = 1)
  /\ (failedAt # 0 => printed = 0 /\ status = "error")

\* The message has been printed by a first run.
C6_Witness ==
  /\ printed = 1
  /\ run = "first"
  /\ status = "ok"

\* C7: at most one handle is open, only between the open and the end of
\* the with block of one create_file call; none is open between calls nor
\* when the process has ended, also when the write raised.
C7_HandleScoped ==
  /\ handles \in {0, 1}
  /\ (handles = 1 => AtStep("create_file") /\ sub = "opened")
  /\ (sub = "call" => handles = 0)
  /\ (status # "running" => handles = 0)

\* A write that failed after the file was opened.
C7_Witness ==
  /\ status = "error"
  /\ fault.kind = "ENOSPC"
  /\ fs[fault.path] = FileNode("")
  /\ handles = 0

\* No two create_file calls name the same path, and none names a directory
\* of the manifest or of a makedirs call.
NoCollision(s) ==
  /\ \A i, j \in FileIdx(s) : Steps(s)[i].path = Steps(s)[j].path => i = j
  /\ \A i \in FileIdx(s) :
       /\ Steps(s)[i].path \notin DirPaths(s)
       /\ \A j \in DirIdx(s) : ~IsPrefix(Steps(s)[i].path, Steps(s)[j].path)

\* C8: started in an empty working directory, with nothing refused, the
\* first run never fails and ends in success with the base directory and
\* its ancestors created; the paths of the script do not collide.
C8_CleanRunSucceeds ==
  /\ [](NoCollision(script) /\ (run = "first" => status # "error" /\ failedAt = 0))
  /\ <>(/\ status = "ok"
        /\ run = "first"
        /\ \A a \in Prefixes(BaseDir(script)) : IsDir(fs, a)
        /\ DirsPresent(script, fs))

\* The theme script has succeeded where not even "themes" existed.
C8_Witness ==
  /\ script = "theme"
  /\ status = "ok"
  /\ run = "first"
  /\ ~Exists(fs0, <<"themes">>)
  /\ IsDir(fs, <<"themes", "installed", "default">>)

\* The environment of the run, as far as the run met it.
DeniedSeen == IF fault.kind = "EACCES" THEN {fault.path} ELSE {}

FullSeen == IF fault.kind = "ENOSPC" THEN {fault.path} ELSE {}

\* C9: a finished run has the outcome and the final filesystem of
\* buildScaffold applied to the script's manifest, on the filesystem the run
\* started from and in the same environment.
C9_MatchesBuildScaffold ==
  status # "running" =>
    LET ref == buildScaffold(fs0, BaseDir(script), Manifest(script), DeniedSeen, FullSeen)
    IN  /\ (ref.err = "") <=> (status = "ok")
        /\ ref.fs = fs

\* A run that failed creating a directory no manifest entry lies in
\* directly (assets of the theme).
C9_Witness ==
  /\ script = "theme"
  /\ status = "error"
  /\ Entry(failedAt).op = "makedirs"
  /\ \A p \in FilePaths(script) : Dirname(p) # Entry(failedAt).path

\* C10: a run changes nothing outside its base directory except that it
\* creates the missing ancestors of the base; what existed still exists,
\* a directory stays a directory, and whatever existed and is not a file
\* path of the manifest keeps its kind and content.
C10_Frame ==
  \A p \in DOMAIN fs :
    fs[p] # fs0[p] =>
      /\ (Exists(fs0, p) => Exists(fs, p))
      /\ (IsDir(fs0, p) => IsDir(fs, p))
      /\ (Exists(fs0, p) => p \in FilePaths(script))
      /\ \/ IsPrefix(BaseDir(script), p)
         \/ IsProperPrefix(p, BaseDir(script)) /\ ~Exists(fs0, p) /\ IsDir(fs, p)

\* A finished run beside a file of the base directory it does not name.
C10_Witness ==
  /\ status # "running"
  /\ pc > 1
  /\ fs0[Join(BaseDir(script), "notes.txt")] = FileNode(Stale)
  /\ fs[Join(BaseDir(script), "notes.txt")] = FileNode(Stale)

=============================================================================
